---- MODULE Spec2Model ----
(***************************************************************************)
(* idunsh: the command-line bridge to the idun cartridge and to the C64    *)
(* Ultimate.  The module models the PETSCII transcoder (util.rs), the      *)
(* local command channel and the content dispatch (main.rs) and the LAN    *)
(* discovery and REST dispatch of C64Ultimate (c64ultimate.rs).            *)
(*                                                                         *)
(* Every run of the tool is one invocation: an action picks the inputs of  *)
(* one call (arguments, the file on disk, what the peer answers) and       *)
(* records what the call returned and what it did to the outside world.    *)
(*                                                                         *)
(* Representation: a byte is 0..255, a Rust `char` is its code point, a    *)
(* String is the sequence of its UTF-8 bytes.  Text that is formatted into *)
(* messages and URLs is a TLA+ string; file names are sequences of         *)
(* one-character strings so that the extension can be cut out of them.     *)
(***************************************************************************)
EXTENDS Integers, Sequences, FiniteSets, TLC

\* ------------------------------------------------------------------ bounds
\* Longest text handed to to_pet, beyond the single characters 0..255.
MaxText == 2
\* Longest byte string handed to from_pet / read from the local channel,
\* beyond the single bytes 0..255.
MaxBytes == 3
\* Longest discovery payload, counted in fragments of PayloadPieces.
MaxPieces == 4
\* Most datagrams that reach the discovery socket within its timeout.
MaxDatagrams == 2
\* Most reads of redirected output that return bytes.
MaxChunks == 2

\* ----------------------------------------------------------------- helpers
\* All sequences over S of length 0..n.
SeqsUpTo(S, n) == UNION { [1..k -> S] : k \in 0..n }

Min(a, b) == IF a < b THEN a ELSE b

\* Rust's Option<T>.
None == [some |-> FALSE]
Some(v) == [some |-> TRUE, v |-> v]

\* Rust's Result<T, E>, with the error kept as its message.
Ok(v) == [ok |-> TRUE, val |-> v, err |-> ""]
Err(e) == [ok |-> FALSE, val |-> <<>>, err |-> e]

\* u8 arithmetic keeps its width.
U8Add(a, b) == (a + b) % 256
U8Sub(a, b) == (a - b + 256) % 256

\* ------------------------------------------------------ util.rs: PetString
\* asc2pet with the third range shifted like the first.
asc2pet_shift80(a) ==
    CASE a \in 65..90   -> U8Add(a, 128)
      [] a \in 97..122  -> U8Sub(a, 32)
      [] a \in 123..127 -> U8Add(a, 128)
      [] OTHER          -> a

asc2pet(a) ==
    CASE a \in 65..90   -> U8Add(a, 128)    \* 0x41..=0x5A => a+0x80
      [] a \in 97..122  -> U8Sub(a, 32)     \* 0x61..=0x7A => a-0x20
      [] a \in 123..127 -> U8Add(a, 96)     \* 0x7B..=0x7F => a+0x60
      [] OTHER          -> a

\* `c as u8` keeps the low eight bits of the code point.
to_pet(a) == [i \in 1..Len(a) |-> asc2pet(a[i] % 256)]

\* `p as char` is the code point U+0000..U+00FF with the value of p, so
\* 'Á'..='Ú' is 0xC1..=0xDA and 'Þ' is 0xDE.
pet2asc(p) ==
    CASE p \in 97..122  -> U8Sub(p, 32)     \* 'a'..='z' => p-0x20
      [] p \in 65..90   -> U8Add(p, 32)     \* 'A'..='Z' => p+0x20
      [] p \in 193..218 -> U8Sub(p, 128)    \* 'Á'..='Ú' => p-0x80
      [] p = 222        -> U8Sub(p, 96)     \* 'Þ' => p-0x60
      [] OTHER          -> p

from_pet(p) == [i \in 1..Len(p) |-> pet2asc(p[i])]

\* The UTF-8 validation behind String::from_utf8 and str::from_utf8.
\* utf8_char_width: the length a lead byte announces, 0 for a byte that
\* cannot start a character.
utf8_char_width(b) ==
    CASE b \in 0..127   -> 1
      [] b \in 194..223 -> 2
      [] b \in 224..239 -> 3
      [] b \in 240..244 -> 4
      [] OTHER          -> 0

IsCont(b) == b \in 128..191

\* The number of bytes of the well-formed character that starts at v[i],
\* 0 when the bytes there are ill-formed or the input ends inside it.
CharAt(v, i) ==
    LET first == v[i]
        w == utf8_char_width(first)
        has(k) == i + k <= Len(v)
    IN CASE w = 1 -> 1
         [] w = 2 -> IF has(1) /\ IsCont(v[i+1]) THEN 2 ELSE 0
         [] w = 3 ->
              IF /\ has(2)
                 /\ \/ first = 224 /\ v[i+1] \in 160..191
                    \/ first \in 225..236 /\ v[i+1] \in 128..191
                    \/ first = 237 /\ v[i+1] \in 128..159
                    \/ first \in 238..239 /\ v[i+1] \in 128..191
                 /\ IsCont(v[i+2])
              THEN 3 ELSE 0
         [] w = 4 ->
              IF /\ has(3)
                 /\ \/ first = 240 /\ v[i+1] \in 144..191
                    \/ first \in 241..243 /\ v[i+1] \in 128..191
                    \/ first = 244 /\ v[i+1] \in 128..143
                 /\ IsCont(v[i+2])
                 /\ IsCont(v[i+3])
              THEN 4 ELSE 0
         [] OTHER -> 0

\* Scan from v[i]: the count of leading bytes that are valid UTF-8.
RECURSIVE ScanUtf8(_, _)
ScanUtf8(v, i) ==
    IF i > Len(v) THEN Len(v)
    ELSE LET n == CharAt(v, i)
         IN IF n = 0 THEN i - 1 ELSE ScanUtf8(v, i + n)

\* Utf8Error::valid_up_to() (the whole length when there is no error).
valid_up_to(v) == ScanUtf8(v, 1)

\* Vec::truncate(l)
truncate(p, l) == SubSeq(p, 1, Min(l, Len(p)))

\* The conversion without the truncation at the first invalid byte.
String_from_unchecked(value) == Ok(from_pet(value))

\* impl From<PetString> for String.  The second from_utf8 is unwrapped: it
\* panics if the truncated bytes are not valid.
String_from(value) ==
    LET d == from_pet(value)
        l == valid_up_to(d)
    IN IF l = Len(d) THEN Ok(d)
       ELSE LET p == truncate(from_pet(value), l)
            IN IF valid_up_to(p) = Len(p) THEN Ok(p) ELSE Err("panic")

\* impl From<&str> for PetString
PetString_from(value) == to_pet(value)

\* ------------------------------------------- main.rs: the local channel
\* Supported shell command constants
EXEC_CMD == 0
GO_CMD == 1
LOAD_CMD == 2
DIR_CMD == 3
CATALOG_CMD == 4
DRIVES_CMD == 5
MOUNT_CMD == 6
ASSIGN_CMD == 7

\* `{}` of an unsigned integer: its decimal digits, no sign, no padding.
Digit == <<"0", "1", "2", "3", "4", "5", "6", "7", "8", "9">>
RECURSIVE Dec(_)
Dec(n) == IF n < 10 THEN Digit[n + 1]
          ELSE Dec(n \div 10) \o Digit[(n % 10) + 1]

\* What the socket does to this call: connect, write_all, write and
\* read_to_end each either work or fail with an io::Error.
ChanOutcomes == {"connect_err", "write_all_err", "write_err", "read_err", "ok"}

\* luasend(message) against a peer that answers r.  The result holds what
\* the call returns, the bytes it wrote to the socket (nothing is counted as
\* delivered when write_all itself fails) and what it printed to stderr.
\* The one-byte write of the newline either writes it or fails.
\* A nonzero first byte makes it print the rest of the answer, which must be
\* UTF-8 (`str::from_utf8(..)?`), and then return Ok(()) all the same.
luasend(message, chan, r) ==
    CASE chan = "connect_err" ->
            [ret |-> Err("io: connect"), wire |-> "", stderr |-> <<>>]
      [] chan = "write_all_err" ->
            [ret |-> Err("io: write_all"), wire |-> "", stderr |-> <<>>]
      [] chan = "write_err" ->
            [ret |-> Err("io: write"), wire |-> message, stderr |-> <<>>]
      [] chan = "read_err" ->
            [ret |-> Err("io: read_to_end"), wire |-> message \o "\n",
             stderr |-> <<>>]
      [] OTHER ->
            IF Len(r) > 0 /\ r[1] > 0
            THEN LET emsg == Tail(r)
                 IN IF valid_up_to(emsg) = Len(emsg)
                    THEN [ret |-> Ok(<<>>), wire |-> message \o "\n",
                          stderr |-> << <<"Remote sys.shell() fail: ", emsg>> >>]
                    ELSE [ret |-> Err("utf8"), wire |-> message \o "\n",
                          stderr |-> <<>>]
            ELSE [ret |-> Ok(<<>>), wire |-> message \o "\n", stderr |-> <<>>]

\* shell formatting the call without the blanks after the commas.
shell_unspaced(cmd, args, proc, chan, r) ==
    luasend("sys.shell(" \o Dec(cmd) \o ",\"" \o args \o "\","
              \o Dec(proc) \o ")", chan, r)

shell(cmd, args, proc, chan, r) ==
    luasend("sys.shell(" \o Dec(cmd) \o ", \"" \o args \o "\", "
              \o Dec(proc) \o ")", chan, r)

stop_cmd(chan, r) == luasend("sys.stop()", chan, r)

reboot_cmd(mode, chan, r) == luasend("sys.reboot(" \o Dec(mode) \o ")", chan, r)

\* --------------------------------------------- main.rs: content dispatch
\* String::to_lowercase, on the ASCII letters file names are made of here.
UpperAZ == <<"A", "B", "C", "D", "E", "F", "G", "H", "I", "J", "K", "L", "M",
             "N", "O", "P", "Q", "R", "S", "T", "U", "V", "W", "X", "Y", "Z">>
LowerAZ == <<"a", "b", "c", "d", "e", "f", "g", "h", "i", "j", "k", "l", "m",
             "n", "o", "p", "q", "r", "s", "t", "u", "v", "w", "x", "y", "z">>
lower_char(c) ==
    IF \E i \in 1..26 : UpperAZ[i] = c
    THEN LowerAZ[CHOOSE i \in 1..26 : UpperAZ[i] = c]
    ELSE c
to_lowercase(s) == [i \in 1..Len(s) |-> lower_char(s[i])]

\* The characters of s as one string.
RECURSIVE Text(_)
Text(s) == IF s = <<>> THEN "" ELSE Head(s) \o Text(Tail(s))

\* The last index of character c in s, 0 when it does not occur.
LastIndex(s, c) ==
    IF \E i \in 1..Len(s) : s[i] = c
    THEN CHOOSE i \in 1..Len(s) : s[i] = c /\ \A j \in (i + 1)..Len(s) : s[j] # c
    ELSE 0

\* Path::file_name: the final component (paths here end in no separator).
file_name(path) ==
    LET f == SubSeq(path, LastIndex(path, "/") + 1, Len(path))
    IN IF f = <<>> \/ f = <<".", ".">> THEN None ELSE Some(f)

\* Path::extension: what follows the last dot of the file name, None when
\* there is no dot or nothing stands before it.
extension(path) ==
    LET f == file_name(path)
    IN IF ~f.some THEN None
       ELSE LET i == LastIndex(f.v, ".")
            IN IF i <= 1 THEN None
               ELSE Some(SubSeq(f.v, i + 1, Len(f.v)))

\* u64 values as four 16-bit limbs, least significant first.
U64Of(n) == <<n % 65536, n \div 65536, 0, 0>>

\* A sum that keeps only the low 16 bits.
U64Add_u16(a, b) == <<(a[1] + b[1]) % 65536, 0, 0, 0>>

\* `size + (start as u64)`: u64 addition, wrapping at 2^64.
U64Add(a, b) ==
    LET s1 == a[1] + b[1]
        s2 == a[2] + b[2] + s1 \div 65536
        s3 == a[3] + b[3] + s2 \div 65536
        s4 == a[4] + b[4] + s3 \div 65536
    IN <<s1 % 65536, s2 % 65536, s3 % 65536, s4 % 65536>>

\* a < b on u64.
U64Lt(a, b) ==
    \E k \in 1..4 : a[k] < b[k] /\ \A j \in (k + 1)..4 : a[j] = b[j]

\* meta(filename): the size and the little-endian u16 of the first two
\* bytes.  open fails for a missing file, read_exact for one under 2 bytes.
meta(file) ==
    IF ~file.exists THEN Err("io: open")
    ELSE IF Len(file.head) < 2 THEN Err("io: read_exact")
    ELSE Ok(<<file.size, file.head[1] + 256 * file.head[2]>>)

\* post(ip, url, file): read the file, then POST it to http://<ip><url>.
\* The result holds the io::Result and the accesses made.
post(ip, url, file, net) ==
    IF ~file.exists
    THEN [ret |-> Err("io: open"), io |-> << <<"open", "post">> >>]
    ELSE [ret |-> IF net = "ok" THEN Ok(<<>>) ELSE Err("io: http"),
          io |-> << <<"open", "post">>, <<"POST", "http://" \o ip \o url>> >>]

\* The endpoint chosen from the extension, the size and the load address:
\* Ok(Some(url)), Ok(None) for an unknown extension, Err when too large.
load_url(ext, size, start) ==
    LET fits == U64Lt(U64Add(size, U64Of(start)), U64Of(65536))
        prg == IF fits THEN Ok(Some("/v1/runners:run_prg"))
               ELSE Err("PRG file is too large")
    IN IF ~ext.some THEN prg
       ELSE CASE ext.v = <<"c", "r", "t">> -> Ok(Some("/v1/runners:run_crt"))
              [] ext.v = <<"s", "i", "d">> -> Ok(Some("/v1/runners:sidplay"))
              [] ext.v = <<"m", "o", "d">> -> Ok(Some("/v1/runners:modplay"))
              [] ext.v = <<"p", "r", "g">> -> prg
              [] OTHER -> Ok(None)

\* ultiload(ip, filenm).  meta(filenm)? runs before the extension is looked
\* at.  The result holds the Result, the endpoint chosen and the accesses.
ultiload(ip, filenm, file, net) ==
    LET lcase == to_lowercase(filenm)
        ext == extension(lcase)
        m == meta(file)
        opened == << <<"open", "meta">> >>
    IN IF ~m.ok THEN [ret |-> Err(m.err), url |-> None, io |-> opened]
       ELSE LET u == load_url(ext, m.val[1], m.val[2])
            IN IF ~u.ok THEN [ret |-> Err(u.err), url |-> None, io |-> opened]
               ELSE IF ~u.val.some
               THEN [ret |-> Err("File extension not recognized"),
                     url |-> None, io |-> opened]
               ELSE LET p == post(ip, u.val.v, file, net)
                    IN [ret |-> IF p.ret.ok THEN Ok(<<>>)
                                ELSE Err("C64 Ultimate web request fail: "
                                           \o ip \o u.val.v),
                        url |-> u.val, io |-> opened \o p.io]

\* The mount accepting every three-letter extension.
is_disk_image_any(e) == Len(e) = 3

\* The disk image types the mount accepts.
is_disk_image(e) ==
    e \in { <<"d", "6", "4">>, <<"g", "6", "4">>, <<"d", "7", "1">>,
            <<"g", "7", "1">>, <<"d", "8", "1">> }

\* ultimount(ip, device, dimage)
ultimount(ip, device, dimage, file, net) ==
    LET lcase == to_lowercase(dimage)
        ext == extension(lcase)
        reject == [ret |-> Err("Unrecognized disk image file type/"),
                   url |-> None, io |-> <<>>]
    IN IF ~ext.some THEN reject
       ELSE IF ~is_disk_image(ext.v) THEN reject
       ELSE LET url == "/v1/drives/" \o device \o "mount?type=" \o Text(ext.v)
                p == post(ip, url, file, net)
            IN [ret |-> IF p.ret.ok THEN Ok(<<>>)
                        ELSE Err("C64 Ultimate web request fail: " \o ip \o url),
                url |-> Some(url), io |-> p.io]

\* ------------------------------------------- c64ultimate.rs: C64Ultimate
\* C64Ultimate::post: as post, with the address taken from service_ip,
\* whose unwrap panics (after the file is read) when no device is known.
C64Ultimate_post(service_ip, url, file, net) ==
    IF ~file.exists
    THEN [ret |-> Err("io: open"), io |-> << <<"open", "post">> >>]
    ELSE IF ~service_ip.some
    THEN [ret |-> Err("panic"), io |-> << <<"open", "post">> >>]
    ELSE [ret |-> IF net = "ok" THEN Ok(<<>>) ELSE Err("io: http"),
          io |-> << <<"open", "post">>,
                    <<"POST", "http://" \o service_ip.v \o url>> >>]

\* C64Ultimate::load: the text of ultiload, with its own meta and post and
\* the failing endpoint alone in the transport error.
C64Ultimate_load(service_ip, filenm, file, net) ==
    LET lcase == to_lowercase(filenm)
        ext == extension(lcase)
        m == meta(file)
        opened == << <<"open", "meta">> >>
    IN IF ~m.ok THEN [ret |-> Err(m.err), url |-> None, io |-> opened]
       ELSE LET u == load_url(ext, m.val[1], m.val[2])
            IN IF ~u.ok THEN [ret |-> Err(u.err), url |-> None, io |-> opened]
               ELSE IF ~u.val.some
               THEN [ret |-> Err("File extension not recognized"),
                     url |-> None, io |-> opened]
               ELSE LET p == C64Ultimate_post(service_ip, u.val.v, file, net)
                    IN [ret |-> IF p.ret.ok THEN Ok(<<>>)
                                ELSE IF p.ret.err = "panic" THEN Err("panic")
                                ELSE Err("C64 Ultimate web request fail: "
                                           \o u.val.v),
                        url |-> u.val, io |-> opened \o p.io]

\* C64Ultimate::mount
C64Ultimate_mount(service_ip, device, dimage, file, net) ==
    LET lcase == to_lowercase(dimage)
        ext == extension(lcase)
        reject == [ret |-> Err("Unrecognized disk image file type/"),
                   url |-> None, io |-> <<>>]
    IN IF ~ext.some THEN reject
       ELSE IF ~is_disk_image(ext.v) THEN reject
       ELSE LET url == "/v1/drives/" \o device \o "mount?type=" \o Text(ext.v)
                p == C64Ultimate_post(service_ip, url, file, net)
            IN [ret |-> IF p.ret.ok THEN Ok(<<>>)
                        ELSE IF p.ret.err = "panic" THEN Err("panic")
                        ELSE Err("C64 Ultimate web request fail: " \o url),
                url |-> Some(url), io |-> p.io]

\* ------------------------------------- c64ultimate.rs: C64Ultimate::detect
\* The characters of a valid UTF-8 byte string, from v[i] on.
RECURSIVE Chars(_, _)
Chars(v, i) ==
    IF i > Len(v) THEN <<>>
    ELSE LET n == CharAt(v, i)
             c == CASE n = 1 -> v[i]
                    [] n = 2 -> (v[i] - 192) * 64 + (v[i+1] - 128)
                    [] n = 3 -> (v[i] - 224) * 4096 + (v[i+1] - 128) * 64
                                  + (v[i+2] - 128)
                    [] OTHER -> (v[i] - 240) * 262144 + (v[i+1] - 128) * 4096
                                  + (v[i+2] - 128) * 64 + (v[i+3] - 128)
         IN <<c>> \o Chars(v, i + n)

\* std::str::from_utf8: the characters, or an error.
str_from_utf8(v) ==
    IF valid_up_to(v) = Len(v) THEN Ok(Chars(v, 1)) ELSE Err("utf8")

\* char::is_whitespace: the Unicode White_Space property.
is_whitespace(c) ==
    \/ c \in 9..13 \/ c = 32 \/ c = 133 \/ c = 160 \/ c = 5760
    \/ c \in 8192..8202 \/ c = 8232 \/ c = 8233 \/ c = 8239 \/ c = 8287
    \/ c = 12288

is_ascii_digit(c) == c \in 48..57

\* The first index from `from` on at which pat occurs in s, 0 for none.
find(s, pat, from) ==
    LET at(i) == SubSeq(s, i, i + Len(pat) - 1) = pat
        hits == { i \in from..(Len(s) - Len(pat) + 1) : at(i) }
    IN IF hits = {} THEN 0
       ELSE CHOOSE i \in hits : \A j \in hits : i <= j

\* s.split(pat).nth(1): what stands between the first occurrence of pat
\* and the next one (or the end); None when pat does not occur.
split_nth1(s, pat) ==
    LET i == find(s, pat, 1)
    IN IF i = 0 THEN None
       ELSE LET from == i + Len(pat)
                j == find(s, pat, from)
            IN Some(SubSeq(s, from, IF j = 0 THEN Len(s) ELSE j - 1))

\* str::trim_start
RECURSIVE trim_start(_)
trim_start(s) ==
    IF s # <<>> /\ is_whitespace(Head(s)) THEN trim_start(Tail(s)) ELSE s

\* The longest prefix of s without whitespace.
RECURSIVE word(_)
word(s) ==
    IF s = <<>> \/ is_whitespace(Head(s)) THEN <<>>
    ELSE <<Head(s)>> \o word(Tail(s))

\* s.split_whitespace().next()
first_token(s) ==
    LET t == word(trim_start(s))
    IN IF t = <<>> THEN None ELSE Some(t)

\* The filter accepting a token with a digit or dot anywhere in it.
is_version_any(v) == \E k \in 1..Len(v) : is_ascii_digit(v[k]) \/ v[k] = 46

\* |v| v.chars().all(|c| c.is_ascii_digit() || c == '.')
is_version(v) == \A k \in 1..Len(v) : is_ascii_digit(v[k]) \/ v[k] = 46

\* "C64 Ultimate"
MARKER == <<67, 54, 52, 32, 85, 108, 116, 105, 109, 97, 116, 101>>

\* The match of the banner "*** C64 Ultimate (V1.47) 3.14 ***".
matches(payload) ==
    LET a == split_nth1(payload, MARKER)
        b == IF a.some THEN split_nth1(a.v, <<41>>) ELSE None
        c == IF b.some THEN Some(trim_start(b.v)) ELSE None
        d == IF c.some THEN first_token(c.v) ELSE None
    IN IF d.some /\ is_version(d.v) THEN d ELSE None

\* What the socket does to detect: bind, set_read_timeout, send_to and
\* recv_from each either work or fail (recv_from also by timing out).
SockOutcomes == {"bind_err", "set_read_timeout_err", "send_err", "recv_err",
                 "datagram"}

\* const TIMEOUT: Duration = Duration::from_millis(500)
TIMEOUT_MS == 500

\* detect(): the device's address or None, and the datagrams sent and
\* receive calls made, each receive with the read timeout set on the
\* socket.  set_broadcast's result is dropped.  A datagram is its bytes
\* (shorter than the 2048-byte buffer) and its sender.
detect(sock, bcast, bytes, src) ==
    LET probe == <<"send_to", "ping", "255.255.255.255:64">>
        recv == <<"recv_from", "read_timeout_ms", Dec(TIMEOUT_MS)>>
    IN CASE sock = "bind_err" -> [ret |-> None, io |-> <<>>]
         [] sock = "set_read_timeout_err" -> [ret |-> None, io |-> <<>>]
         [] sock = "send_err" -> [ret |-> None, io |-> <<probe>>]
         [] sock = "recv_err" -> [ret |-> None, io |-> <<probe, recv>>]
         [] OTHER ->
              LET payload == str_from_utf8(bytes)
              IN IF ~payload.ok THEN [ret |-> None, io |-> <<probe, recv>>]
                 ELSE IF matches(payload.val).some
                 THEN [ret |-> Some(src), io |-> <<probe, recv>>]
                 ELSE [ret |-> None, io |-> <<probe, recv>>]

\* detect receiving again while datagrams are left and none has matched.
RECURSIVE detect_lan_retry(_, _, _)
detect_lan_retry(sock, bcast, net) ==
    IF sock # "datagram" THEN detect(sock, bcast, <<>>, "")
    ELSE IF net = <<>> THEN detect("recv_err", bcast, <<>>, "")
    ELSE LET first == detect(sock, bcast, net[1].bytes, net[1].src)
         IN IF first.ret.some \/ Len(net) = 1 THEN first
            ELSE LET more == detect_lan_retry(sock, bcast, Tail(net))
                 IN [ret |-> more.ret, io |-> first.io \o Tail(more.io)]

\* detect() on a LAN where the datagrams of net reach the socket, in this
\* order, before the read timeout ends: recv_from hands over the first of
\* them, and fails (timed out) when there is none.
detect_lan(sock, bcast, net) ==
    IF sock # "datagram" THEN detect(sock, bcast, <<>>, "")
    ELSE IF net = <<>> THEN detect("recv_err", bcast, <<>>, "")
    ELSE detect(sock, bcast, net[1].bytes, net[1].src)

\* C64Ultimate::new(): the address from C64_ULTIMATE_IP when it is set,
\* and from detect() otherwise.
C64Ultimate_new(env_ip, sock, bcast, bytes, src) ==
    IF env_ip.some THEN [ret |-> env_ip, io |-> <<>>]
    ELSE detect(sock, bcast, bytes, src)

\* Rust's [String]::join(sep).
RECURSIVE join(_, _)
join(v, sep) ==
    IF v = <<>> THEN ""
    ELSE IF Len(v) = 1 THEN v[1]
    ELSE v[1] \o sep \o join(Tail(v), sep)

\* main: a switch style flag for each of the characters of --xarg.
RECURSIVE xargs_of(_)
xargs_of(flags) ==
    IF flags = <<>> THEN ""
    ELSE "/" \o Head(flags) \o " " \o xargs_of(Tail(flags))

\* main's command match: what it hands to the encoder for a subcommand.
\* `form` is the function called, none when main returns without sending.
main_command(syscmd, xargs, proc) ==
    CASE syscmd.kind = "Go" ->
            [form |-> "shell", cmd |-> GO_CMD, args |-> syscmd.a, proc |-> 0]
      [] syscmd.kind = "Load" ->
            [form |-> "shell", cmd |-> LOAD_CMD, args |-> syscmd.a, proc |-> 0]
      [] syscmd.kind = "Reboot" -> [form |-> "reboot", mode |-> 0]
      [] syscmd.kind = "Stop" -> [form |-> "stop"]
      [] syscmd.kind = "Dir" ->
            [form |-> "shell", cmd |-> DIR_CMD, args |-> syscmd.a, proc |-> proc]
      [] syscmd.kind = "Catalog" ->
            [form |-> "shell", cmd |-> CATALOG_CMD, args |-> xargs \o syscmd.a,
             proc |-> proc]
      [] syscmd.kind = "Drives" ->
            [form |-> "shell", cmd |-> DRIVES_CMD,
             args |-> IF syscmd.a.some THEN syscmd.a.v ELSE "", proc |-> proc]
      [] syscmd.kind = "Mount" ->
            [form |-> "shell", cmd |-> MOUNT_CMD,
             args |-> syscmd.a \o " " \o syscmd.b, proc |-> proc]
      [] syscmd.kind = "Assign" ->
            [form |-> "shell", cmd |-> ASSIGN_CMD,
             args |-> syscmd.a \o " " \o syscmd.b, proc |-> proc]
      [] syscmd.kind = "Exec" ->
            [form |-> "shell", cmd |-> EXEC_CMD,
             args |-> syscmd.a \o " " \o xargs \o join(syscmd.b, " "),
             proc |-> proc]
      [] OTHER -> [form |-> "none"]

\* The encoder call e carried out on the channel.
send(e, chan, r) ==
    CASE e.form = "shell" -> shell(e.cmd, e.args, e.proc, chan, r)
      [] e.form = "stop" -> stop_cmd(chan, r)
      [] e.form = "reboot" -> reboot_cmd(e.mode, chan, r)
      [] e.form = "raw" -> luasend(e.message, chan, r)
      [] OTHER -> [ret |-> Ok(<<>>), wire |-> "", stderr |-> <<>>]

\* ------------------------------------------------------------------- state
VARIABLES
    call,     \* the call of this invocation, with its inputs
    enc,      \* what was handed to the command encoder (form none: nothing)
    ret,      \* what the call returned
    url,      \* the REST endpoint the dispatcher chose, None when it chose none
    wire,     \* the bytes written to the local channel socket
    stderr,   \* the lines printed to standard error
    io,       \* the file opens and HTTP requests made, in order
    pc,       \* where main and its listener thread are
    sockfile, \* the socket file /run/user/<uid>/<pid> exists
    joined,   \* main has joined the listener thread
    stdout,   \* what the listener thread has printed
    thread    \* what the listener thread's closure returned, None before

threads == <<pc, sockfile, joined, stdout, thread>>
vars == <<call, enc, ret, url, wire, stderr, io, pc, sockfile, joined, stdout,
          thread>>

\* ------------------------------------------------------------------ inputs
\* Characters at the edges of the encoder's ranges, and one above U+00FF.
TextAlphabet == {0, 64, 65, 90, 91, 96, 97, 122, 123, 126, 127, 128, 193, 255, 321}
Texts == { <<c>> : c \in 0..255 } \cup SeqsUpTo(TextAlphabet, MaxText)

\* Bytes at the edges of the decoder's ranges, UTF-8 lead and continuation
\* bytes that survive decoding, and bytes that are never valid.
ByteAlphabet == {0, 1, 13, 65, 97, 128, 160, 193, 219, 222, 224, 237, 240, 255}
ByteStrings == { <<b>> : b \in 0..255 } \cup SeqsUpTo(ByteAlphabet, MaxBytes)

\* Argument strings: plain, empty, and with the characters the message
\* format gives a meaning to (a double quote, a newline).
ArgStrings == {"0:", "", "a\"b", "x\ny"}
\* Process ids: 0 (no redirection), the one of the example, and the largest
\* pid Linux hands out (2^22).
Pids == {0, 1234, 4194304}
\* Answers of the peer to a shell command.
Replies == {<<>>, <<0>>, <<0, 65>>, <<1>>, <<1, 65, 193>>, <<1, 255>>}
\* A channel that fails answers nothing; one that works answers any bytes.
LuaOutcomes ==
    ({"ok"} \X ByteStrings) \cup ((ChanOutcomes \ {"ok"}) \X {<<>>})
XargFlags == {<<>>, <<"l">>, <<"l", "a">>}
Syscommands ==
    [kind : {"Go", "Load", "Dir", "Catalog"}, a : ArgStrings, b : {""}]
    \cup [kind : {"Drives"}, a : {None, Some("0:")}, b : {""}]
    \cup [kind : {"Mount", "Assign"}, a : {"a:"}, b : ArgStrings]
    \cup [kind : {"Exec"}, a : {"dos"}, b : {<<>>, <<"0:">>, <<"a", "b">>}]
    \cup [kind : {"Reboot", "Stop", "None"}, a : {""}, b : {""}]

\* File names: the content and disk image types in both cases, unknown
\* types, no extension, a dotted directory, two dots, a leading dot and a
\* trailing dot.
FileNames == {
    <<"g", "a", "m", "e">>,
    <<"g", "a", "m", "e", ".", "p", "r", "g">>,
    <<"g", "a", "m", "e", ".", "P", "R", "G">>,
    <<"c", "a", "r", "t", ".", "c", "r", "t">>,
    <<"c", "a", "r", "t", ".", "C", "r", "t">>,
    <<"t", "u", "n", "e", ".", "s", "i", "d">>,
    <<"s", "o", "n", "g", ".", "M", "O", "D">>,
    <<"s", "o", "n", "g", ".", "m", "o", "d">>,
    <<"i", "m", "a", "g", "e", ".", "D", "6", "4">>,
    <<"i", "m", "a", "g", "e", ".", "d", "6", "4">>,
    <<"i", "m", "a", "g", "e", ".", "g", "6", "4">>,
    <<"i", "m", "a", "g", "e", ".", "D", "7", "1">>,
    <<"i", "m", "a", "g", "e", ".", "g", "7", "1">>,
    <<"i", "m", "a", "g", "e", ".", "d", "8", "1">>,
    <<"i", "m", "a", "g", "e", ".", "i", "s", "o">>,
    <<"i", "m", "a", "g", "e", ".", "d", "8", "2">>,
    <<"d", "i", "r", ".", "d", "6", "4", "/", "g", "a", "m", "e">>,
    <<"a", ".", "b", ".", "c", "r", "t">>,
    <<".", "c", "r", "t">>,
    <<"g", "a", "m", "e", ".">> }
\* File sizes, as u64 limbs: 0, 1, 2, 15, 16, 100, 65535, 65536, 2^32 and
\* the largest size a file can have (2^63 - 1, the largest off_t).
SizesWithHeader ==
    { U64Of(2), U64Of(15), U64Of(16), U64Of(100), U64Of(65535), U64Of(65536),
      <<0, 0, 1, 0>>, <<65535, 65535, 65535, 32767>> }
HeaderLow == {0, 1, 240, 255}
HeaderHigh == {0, 8, 32, 255}
\* The file named on the command line: missing, shorter than its two
\* header bytes, or with a header and a size.
Files ==
    { [exists |-> FALSE, size |-> U64Of(0), head |-> <<>>],
      [exists |-> TRUE, size |-> U64Of(0), head |-> <<>>] }
    \cup { [exists |-> TRUE, size |-> U64Of(1), head |-> <<b>>] : b \in HeaderLow }
    \cup { [exists |-> TRUE, size |-> sz, head |-> <<lo, hi>>] :
             sz \in SizesWithHeader, lo \in HeaderLow, hi \in HeaderHigh }
DiskFiles == { f \in Files : f.head \in {<<>>, <<1>>, <<1, 8>>} }
Addresses == {"192.168.1.64"}
Devices == {"a:", "b:"}
NetOutcomes == {"ok", "fail"}

\* Discovery payloads: the two banners of the documentation, and every
\* string of up to MaxPieces fragments: the marker, ")", " ", "3", ".",
\* "x", a no-break space (U+00A0) and a byte that is never valid UTF-8.
PayloadPieces == { MARKER, <<41>>, <<32>>, <<51>>, <<46>>, <<120>>,
                   <<194, 160>>, <<255>> }
RECURSIVE Flat(_)
Flat(ps) == IF ps = <<>> THEN <<>> ELSE Head(ps) \o Flat(Tail(ps))
Banner == <<42, 42, 42, 32, 67, 54, 52, 32, 85, 108, 116, 105, 109, 97, 116, 101, 32, 40, 86, 49, 46, 52, 55, 41, 32, 51, 46, 49, 52, 32, 42, 42, 42>>
OtherBanner == <<42, 42, 42, 32, 83, 111, 109, 101, 116, 104, 105, 110, 103, 32, 69, 108, 115, 101, 32, 42, 42, 42>>
Payloads ==
    { Flat(ps) : ps \in SeqsUpTo(PayloadPieces, MaxPieces) }
    \cup {Banner, OtherBanner}
Senders == {"192.168.1.64", "10.0.0.9"}
\* The datagrams that answer a probe: a banner, another device's banner or
\* bytes that are not UTF-8, each from either sender.
Datagrams == [bytes : {Banner, OtherBanner, <<255>>}, src : Senders]
Lans == SeqsUpTo(Datagrams, MaxDatagrams)

\* ----------------------------------------------------------------- actions
\* The tool is one-shot: one call per process, made from the fresh state.
Fresh == call.fn = "none"

CallPetStringFrom(text) ==
    /\ call' = [fn |-> "PetString::from", text |-> text]
    /\ enc' = [form |-> "none"]
    /\ ret' = Ok(PetString_from(text))
    /\ url' = None
    /\ wire' = ""
    /\ stderr' = <<>>
    /\ io' = <<>>
    /\ UNCHANGED threads

CallStringFrom(bytes) ==
    /\ call' = [fn |-> "String::from", bytes |-> bytes]
    /\ enc' = [form |-> "none"]
    /\ ret' = String_from(bytes)
    /\ url' = None
    /\ wire' = ""
    /\ stderr' = <<>>
    /\ io' = <<>>
    /\ UNCHANGED threads

\* The encoder call e made on the channel, as the outcome of call c.
Sent(c, e, chan, r) ==
    LET out == send(e, chan, r)
    IN /\ call' = c
       /\ enc' = e
       /\ ret' = out.ret
       /\ url' = None
       /\ wire' = out.wire
       /\ stderr' = out.stderr
       /\ io' = <<>>
       /\ UNCHANGED threads

\* main's `luasend(cmd)?` of the sys.chdir command (--syncdir).
CallLuasend(message, chan, r) ==
    Sent([fn |-> "luasend", chan |-> chan, resp |-> r],
         [form |-> "raw", message |-> message], chan, r)

CallShell(cmd, args, proc, chan, r) ==
    Sent([fn |-> "shell", chan |-> chan, resp |-> r],
         [form |-> "shell", cmd |-> cmd, args |-> args, proc |-> proc], chan, r)

CallStop(chan, r) ==
    Sent([fn |-> "stop_cmd", chan |-> chan, resp |-> r], [form |-> "stop"], chan, r)

CallReboot(mode, chan, r) ==
    Sent([fn |-> "reboot_cmd", chan |-> chan, resp |-> r],
         [form |-> "reboot", mode |-> mode], chan, r)

\* main's command handling for a subcommand sent on the local channel:
\* proc is the process id when output is redirected and 0 otherwise.
MainCommand(syscmd, flags, output, pid, chan, r) ==
    Sent([fn |-> "main", syscmd |-> syscmd, output |-> output, pid |-> pid,
          chan |-> chan, resp |-> r],
         main_command(syscmd, xargs_of(flags), IF output THEN pid ELSE 0),
         chan, r)

\* The outcome out of a dispatcher call c.
Dispatched(c, out) ==
    /\ call' = c
    /\ enc' = [form |-> "none"]
    /\ ret' = out.ret
    /\ url' = out.url
    /\ wire' = ""
    /\ stderr' = <<>>
    /\ io' = out.io
    /\ UNCHANGED threads

\* `idunsh -u load <prg>` with C64_ULTIMATE_IP set
CallUltiload(ip, filenm, file, net) ==
    Dispatched([fn |-> "ultiload", ip |-> Some(ip), name |-> filenm,
                file |-> file, net |-> net],
               ultiload(ip, filenm, file, net))

\* `idunsh -u mount <dev> <dimage>` with C64_ULTIMATE_IP set
CallUltimount(ip, device, dimage, file, net) ==
    Dispatched([fn |-> "ultimount", ip |-> Some(ip), device |-> device,
                name |-> dimage, file |-> file, net |-> net],
               ultimount(ip, device, dimage, file, net))

CallC64UltimateLoad(service_ip, filenm, file, net) ==
    Dispatched([fn |-> "C64Ultimate::load", ip |-> service_ip, name |-> filenm,
                file |-> file, net |-> net],
               C64Ultimate_load(service_ip, filenm, file, net))

CallC64UltimateMount(service_ip, device, dimage, file, net) ==
    Dispatched([fn |-> "C64Ultimate::mount", ip |-> service_ip,
                device |-> device, name |-> dimage, file |-> file, net |-> net],
               C64Ultimate_mount(service_ip, device, dimage, file, net))

\* C64Ultimate::new() on a LAN where the probe is answered (or not).
CallNew(env_ip, sock, bcast, bytes, src) ==
    LET out == C64Ultimate_new(env_ip, sock, bcast, bytes, src)
    IN /\ call' = [fn |-> "C64Ultimate::new", env_ip |-> env_ip, sock |-> sock,
                   bcast |-> bcast, bytes |-> bytes, src |-> src]
       /\ enc' = [form |-> "none"]
       /\ ret' = out.ret
       /\ url' = None
       /\ wire' = ""
       /\ stderr' = <<>>
       /\ io' = out.io
       /\ UNCHANGED threads

\* C64Ultimate::new() without C64_ULTIMATE_IP, on a LAN where any number
\* of devices answer the probe.
CallDetect(sock, bcast, net) ==
    LET out == detect_lan(sock, bcast, net)
    IN /\ call' = [fn |-> "C64Ultimate::detect", sock |-> sock,
                   bcast |-> bcast, net |-> net]
       /\ enc' = [form |-> "none"]
       /\ ret' = out.ret
       /\ url' = None
       /\ wire' = ""
       /\ stderr' = <<>>
       /\ io' = out.io
       /\ UNCHANGED threads

Init ==
    /\ call = [fn |-> "none"]
    /\ enc = [form |-> "none"]
    /\ ret = Ok(<<>>)
    /\ url = None
    /\ wire = ""
    /\ stderr = <<>>
    /\ io = <<>>
    /\ pc = [main |-> "parse", listener |-> "none"]
    /\ sockfile = FALSE
    /\ joined = FALSE
    /\ stdout = <<>>
    /\ thread = None

Next ==
    \/ Fresh /\ \E text \in Texts : CallPetStringFrom(text)
    \/ Fresh /\ \E bytes \in ByteStrings : CallStringFrom(bytes)
    \/ Fresh /\ \E o \in LuaOutcomes :
          CallLuasend("sys.chdir(\"/home/user\")", o[1], o[2])
    \/ Fresh /\ \E cmd \in 0..7, args \in ArgStrings, proc \in Pids,
          chan \in ChanOutcomes, r \in Replies :
          CallShell(cmd, args, proc, chan, r)
    \/ Fresh /\ \E chan \in ChanOutcomes, r \in Replies : CallStop(chan, r)
    \/ Fresh /\ \E mode \in 0..1, chan \in ChanOutcomes, r \in Replies :
          CallReboot(mode, chan, r)
    \/ Fresh /\ \E syscmd \in Syscommands, flags \in XargFlags, output \in BOOLEAN,
          pid \in Pids \ {0}, chan \in {"connect_err", "ok"},
          r \in {<<0>>, <<1, 65>>} :
          MainCommand(syscmd, flags, output, pid, chan, r)
    \/ Fresh /\ \E ip \in Addresses, filenm \in FileNames, file \in Files,
          net \in NetOutcomes :
          CallUltiload(ip, filenm, file, net)
    \/ Fresh /\ \E ip \in Addresses, device \in Devices, dimage \in FileNames,
          file \in DiskFiles, net \in NetOutcomes :
          CallUltimount(ip, device, dimage, file, net)
    \/ Fresh /\ \E sip \in {None} \cup {Some(a) : a \in Addresses},
          filenm \in FileNames, file \in Files, net \in NetOutcomes :
          CallC64UltimateLoad(sip, filenm, file, net)
    \/ Fresh /\ \E sip \in {None} \cup {Some(a) : a \in Addresses},
          device \in Devices, dimage \in FileNames, file \in DiskFiles,
          net \in NetOutcomes :
          CallC64UltimateMount(sip, device, dimage, file, net)
    \/ Fresh /\ \E bytes \in Payloads, src \in Senders :
          CallNew(None, "datagram", TRUE, bytes, src)
    \/ Fresh /\ \E env_ip \in {None, Some("192.168.1.64")},
          sock \in SockOutcomes, bcast \in BOOLEAN, src \in Senders :
          CallNew(env_ip, sock, bcast, Banner, src)
    \/ Fresh /\ \E sock \in SockOutcomes, bcast \in BOOLEAN, net \in Lans :
          CallDetect(sock, bcast, net)

Spec == Init /\ [][Next]_vars

\* ------------------------------------- main and its listener thread, stepwise
\* One run of the process on the local channel (without --ultimate), cut
\* where main or the thread can block.  The process ends when main returns:
\* no thread takes a step after that.

\* String::replace('\r', "\n")
replace_cr(s) == [i \in 1..Len(s) |-> IF s[i] = 13 THEN 10 ELSE s[i]]

\* The subcommands, one argument list for each.
MainCommands ==
    [kind : {"Go", "Load", "Dir", "Catalog"}, a : {"0:"}, b : {""}]
    \cup [kind : {"Drives"}, a : {None, Some("0:")}, b : {""}]
    \cup [kind : {"Mount", "Assign"}, a : {"a:"}, b : {"0:"}]
    \cup [kind : {"Exec"}, a : {"dos"}, b : {<<"0:">>}]
    \cup [kind : {"Reboot", "Stop", "None"}, a : {""}, b : {""}]
\* What one read of the redirected output can bring.
Chunks == {<<65>>, <<13, 193>>}
\* The channel's answers to a subcommand.
MainOutcomes ==
    ({"ok"} \X Replies) \cup ((ChanOutcomes \ {"ok"}) \X {<<>>})

\* The thread's closure has returned or panicked.
Finished == pc.listener \in {"returned", "panicked"}

\* main up to the command match: the chdir message of --syncdir, the
\* switches of --xarg, and for --output the listener socket bound and the
\* thread spawned.  A failed send or bind returns the error.
MainStart(syscmd, flags, output, syncdir, pid, chan, bind) ==
    LET cd == IF syncdir THEN luasend("sys.chdir(\"/home/user\")", chan, <<>>)
              ELSE [ret |-> Ok(<<>>), wire |-> "", stderr |-> <<>>]
        bound == cd.ret.ok /\ output /\ bind = "ok"
        early == IF ~cd.ret.ok THEN cd.ret
                 ELSE IF output /\ bind # "ok" THEN Err("io: bind")
                 ELSE Ok(<<>>)
    IN /\ call' = [fn |-> "idunsh", syscmd |-> syscmd, flags |-> flags,
                   output |-> output, syncdir |-> syncdir, pid |-> pid]
       /\ enc' = [form |-> "none"]
       /\ ret' = early
       /\ url' = None
       /\ wire' = cd.wire
       /\ stderr' = cd.stderr
       /\ io' = <<>>
       /\ pc' = [main |-> IF early.ok THEN "dispatch" ELSE "exited",
                 listener |-> IF bound THEN "accept" ELSE "none"]
       /\ sockfile' = bound
       /\ joined' = FALSE
       /\ stdout' = <<>>
       /\ thread' = None

\* main's command match.  Go, Load, Reboot, Stop and no subcommand return
\* what the send returned; the others return only a failed send and go on
\* to the join otherwise.
MainDispatch(chan, r) ==
    LET proc == IF pc.listener # "none" THEN call.pid ELSE 0
        e == main_command(call.syscmd, xargs_of(call.flags), proc)
        out == send(e, chan, r)
        returns == \/ call.syscmd.kind \in {"Go", "Load", "Reboot", "Stop", "None"}
                   \/ ~out.ret.ok
    IN /\ pc.main = "dispatch"
       /\ enc' = e
       /\ ret' = out.ret
       /\ wire' = wire \o out.wire
       /\ stderr' = stderr \o out.stderr
       /\ pc' = [pc EXCEPT !.main = IF returns THEN "exited" ELSE "join"]
       /\ UNCHANGED <<call, url, io, sockfile, joined, stdout, thread>>

\* main's join: it waits for the thread if there is one, and fails only
\* when the thread panicked; the closure's own Err is dropped.
MainJoin ==
    /\ pc.main = "join"
    /\ pc.listener = "none" \/ Finished
    /\ ret' = IF pc.listener = "panicked"
              THEN Err("Failed receiving redirected output E:")
              ELSE Ok(<<>>)
    /\ joined' = Finished
    /\ pc' = [pc EXCEPT !.main = "exited"]
    /\ UNCHANGED <<call, enc, url, wire, stderr, io, sockfile, stdout, thread>>

\* The thread's accept: a peer connects, or the call fails and the closure
\* returns the error.
ListenerAccept(outcome) ==
    /\ pc.main # "exited"
    /\ pc.listener = "accept"
    /\ pc' = [pc EXCEPT !.listener = IF outcome = "ok" THEN "read" ELSE "returned"]
    /\ thread' = IF outcome = "ok" THEN thread ELSE Some(Err("io: accept"))
    /\ UNCHANGED <<call, enc, ret, url, wire, stderr, io, sockfile, joined, stdout>>

\* One turn of the thread's read loop: bytes are converted and printed
\* (print! panics when standard output fails), no bytes end the loop, an
\* error returns from the closure.
ListenerRead(outcome, buf) ==
    LET pets == String_from(buf)
    IN /\ pc.main # "exited"
       /\ pc.listener = "read"
       /\ outcome = "data" => Len(stdout) < MaxChunks
       /\ pc' = [pc EXCEPT !.listener =
                    CASE outcome = "data" -> IF pets.ok THEN "read" ELSE "panicked"
                      [] outcome = "stdout_err" -> "panicked"
                      [] outcome = "eof" -> "cleanup"
                      [] OTHER -> "returned"]
       /\ stdout' = IF outcome = "data" /\ pets.ok
                    THEN Append(stdout, replace_cr(pets.val))
                    ELSE stdout
       /\ thread' = IF outcome = "read_err" THEN Some(Err("io: read")) ELSE thread
       /\ UNCHANGED <<call, enc, ret, url, wire, stderr, io, sockfile, joined>>

\* The thread's cleanup: a newline, the flush, and the socket file removed.
ListenerCleanup(outcome) ==
    /\ pc.main # "exited"
    /\ pc.listener = "cleanup"
    /\ pc' = [pc EXCEPT !.listener = "returned"]
    /\ stdout' = Append(stdout, <<10>>)
    /\ sockfile' = (outcome # "ok")
    /\ thread' = CASE outcome = "flush_err" -> Some(Err("io: flush"))
                   [] outcome = "remove_file_err" -> Some(Err("io: remove_file"))
                   [] OTHER -> Some(Ok(<<>>))
    /\ UNCHANGED <<call, enc, ret, url, wire, stderr, io, joined>>

NextMain ==
    \/ Fresh /\ \E syscmd \in MainCommands, flags \in {<<>>, <<"l">>},
                   output \in BOOLEAN, syncdir \in BOOLEAN,
                   chan \in {"ok", "connect_err"}, bind \in {"ok", "bind_err"} :
          MainStart(syscmd, flags, output, syncdir, 1234, chan, bind)
    \/ \E o \in MainOutcomes : MainDispatch(o[1], o[2])
    \/ MainJoin
    \/ \E outcome \in {"ok", "accept_err"} : ListenerAccept(outcome)
    \/ \E outcome \in {"data", "stdout_err", "eof", "read_err"}, buf \in Chunks :
          ListenerRead(outcome, buf)
    \/ \E outcome \in {"ok", "flush_err", "remove_file_err"} :
          ListenerCleanup(outcome)

SpecMain == Init /\ [][NextMain]_vars

\* ================================================================== claims

\* UTF-8 by its definition: s is the shortest encoding of one Unicode
\* scalar value (no surrogate, nothing above U+10FFFF).
Trail(b) == b \in 128..191
IsEncodedScalar(s) ==
    \/ Len(s) = 1 /\ s[1] \in 0..127
    \/ /\ Len(s) = 2 /\ s[1] \in 192..223 /\ Trail(s[2])
       /\ (s[1] - 192) * 64 + (s[2] - 128) >= 128
    \/ /\ Len(s) = 3 /\ s[1] \in 224..239 /\ Trail(s[2]) /\ Trail(s[3])
       /\ LET cp == (s[1] - 224) * 4096 + (s[2] - 128) * 64 + (s[3] - 128)
          IN cp >= 2048 /\ cp \notin 55296..57343
    \/ /\ Len(s) = 4 /\ s[1] \in 240..247
       /\ Trail(s[2]) /\ Trail(s[3]) /\ Trail(s[4])
       /\ LET cp == (s[1] - 240) * 262144 + (s[2] - 128) * 4096
                      + (s[3] - 128) * 64 + (s[4] - 128)
          IN cp \in 65536..1114111

RECURSIVE WellFormedUtf8(_)
WellFormedUtf8(s) ==
    \/ s = <<>>
    \/ \E k \in 1..Min(4, Len(s)) :
          /\ IsEncodedScalar(SubSeq(s, 1, k))
          /\ WellFormedUtf8(SubSeq(s, k + 1, Len(s)))

\* ---- local channel
\* The calls that go through luasend, and those whose message was written
\* to the channel in full.
OnChannel == call.fn \in {"luasend", "shell", "stop_cmd", "reboot_cmd", "main"}
                /\ enc.form # "none"
Written == OnChannel /\ call.chan \in {"read_err", "ok"}

\* C1: once the response is read, an empty response or a first byte 0 is
\* success whatever follows; a nonzero first byte makes luasend return a
\* failure whose message is from_native of the bytes after the first.
\* (ret.val of a failure is the message it carries.)
C1_StatusByte ==
    (OnChannel /\ call.chan = "ok") =>
        IF call.resp = <<>> \/ call.resp[1] = 0
        THEN ret.ok
        ELSE ~ret.ok /\ ret.val = String_from(Tail(call.resp)).val

\* The wire contract's identifiers and the decimal text of the pids used.
KindId == [Exec |-> 0, Go |-> 1, Load |-> 2, Dir |-> 3, Catalog |-> 4,
           Drives |-> 5, Mount |-> 6, Assign |-> 7]
IdText == <<"0", "1", "2", "3", "4", "5", "6", "7">>
PidText == (0 :> "0" @@ 1234 :> "1234" @@ 4194304 :> "4194304")

\* C7: the message written for a shell command is exactly
\* sys.shell(<id>, "<arg>", <pid>) with the kind's identifier (Exec=0 ..
\* Assign=7), the argument copied verbatim and one newline after it; stop
\* and reboot are written as sys.stop() and sys.reboot(<mode>), each with
\* the one newline.
C7_WireFormat ==
    /\ (Written /\ enc.form = "shell") =>
          /\ wire = "sys.shell(" \o IdText[enc.cmd + 1] \o ", \""
                       \o enc.args \o "\", " \o PidText[enc.proc] \o ")\n"
          /\ call.fn = "main" => enc.cmd = KindId[call.syscmd.kind]
    /\ (Written /\ enc = [form |-> "shell", cmd |-> 3, args |-> "0:",
                           proc |-> 1234])
          => wire = "sys.shell(3, \"0:\", 1234)\n"
    /\ (Written /\ enc.form = "stop") => wire = "sys.stop()\n"
    /\ (Written /\ enc.form = "reboot") =>
          wire = "sys.reboot(" \o IdText[enc.mode + 1] \o ")\n"

\* `idunsh -o dir 0:` run as process 1234 has written its message.
C7_Witness ==
    /\ call.fn = "main" /\ call.syscmd.kind = "Dir" /\ call.chan = "ok"
    /\ wire = "sys.shell(3, \"0:\", 1234)\n"

\* ---- discovery
\* detect has received a datagram.
Detected == /\ call.fn = "C64Ultimate::new"
            /\ ~call.env_ip.some
            /\ call.sock = "datagram"

MarkerAt(s, i) == i + 11 <= Len(s) /\ SubSeq(s, i, i + 11) = MARKER
DigitOrDot(c) == c \in 48..57 \/ c = 46
Least(S, default) ==
    IF S = {} THEN default ELSE CHOOSE x \in S : \A y \in S : x <= y

\* The first whitespace-separated token of s[j+1..e] exists and consists
\* only of digits and dots.
VersionAfter(s, j, e) ==
    \E a \in (j + 1)..e, z \in (j + 1)..e :
        /\ a <= z
        /\ \A k \in (j + 1)..(a - 1) : is_whitespace(s[k])
        /\ \A k \in a..z : ~is_whitespace(s[k]) /\ DigitOrDot(s[k])
        /\ z = e \/ is_whitespace(s[z + 1])

\* The marker, later a ")", and a digits-and-dots token right after it.
BannerShape(s) ==
    \E i \in 1..Len(s), j \in 1..Len(s) :
        /\ MarkerAt(s, i)
        /\ j >= i + 12
        /\ s[j] = 41
        /\ VersionAfter(s, j, Len(s))

\* C6: detect returns an address if and only if the datagram decodes as
\* UTF-8 and holds the marker, followed eventually by a ")", followed by a
\* whitespace-separated token of digits and dots only; the address it
\* returns is the datagram's source address.
C6_ValidReply ==
    Detected =>
        /\ ret.some <=> /\ WellFormedUtf8(call.bytes)
                        /\ BannerShape(Chars(call.bytes, 1))
        /\ ret.some => ret.v = call.src

\* The shape detect looks for: after the first marker and before the next
\* one there is a ")", and the text after the first such ")", up to the
\* next ")" or marker or the end, starts (after whitespace) with a token
\* of digits and dots only.
FirstBannerShape(s) ==
    \E i \in 1..Len(s) :
        /\ MarkerAt(s, i)
        /\ \A h \in 1..(i - 1) : ~MarkerAt(s, h)
        /\ LET e1 == Least({ m \in (i + 12)..Len(s) : MarkerAt(s, m) },
                           Len(s) + 1) - 1
           IN \E j \in (i + 12)..e1 :
                 /\ s[j] = 41
                 /\ \A k \in (i + 12)..(j - 1) : s[k] # 41
                 /\ LET e2 == Least({ m \in (j + 1)..e1 : s[m] = 41 },
                                    e1 + 1) - 1
                    IN VersionAfter(s, j, e2)

\* C6 as amended: detect returns an address if and only if the datagram
\* decodes as UTF-8 and, in the text between the first marker and the next
\* marker (or the end), the text between the first ")" and the next ")"
\* (or that text's end) has a first whitespace-separated token made of
\* digits and dots only; the address is the datagram's source address.
C6_FirstSegmentReply ==
    Detected =>
        /\ ret.some <=> /\ WellFormedUtf8(call.bytes)
                        /\ FirstBannerShape(Chars(call.bytes, 1))
        /\ ret.some => ret.v = call.src

\* The documented banner, sent from 10.0.0.9, is answered with 10.0.0.9.
C6_Witness ==
    Detected /\ call.bytes = Banner /\ call.src = "10.0.0.9"
        /\ ret = Some("10.0.0.9")

\* The socket calls of one kind that the call made.
SocketCalls(kind) == { i \in 1..Len(io) : io[i][1] = kind }

\* The datagram answers the probe as detect wants it.
Answers(d) == WellFormedUtf8(d.bytes) /\ FirstBannerShape(Chars(d.bytes, 1))

\* C11: discovery is single-shot.  detect sends one "ping" to the
\* broadcast address on port 64 and makes exactly one receive call, under
\* the 500 ms timeout; a socket call that fails ends it before the calls
\* that would follow.  Only the first datagram received is examined,
\* whoever sent it, and any socket error, timeout, decode failure or
\* mismatch gives "not found" with nothing sent or received again.
C11_SingleShot ==
    call.fn = "C64Ultimate::detect" =>
        /\ Cardinality(SocketCalls("send_to")) =
              IF call.sock \in {"bind_err", "set_read_timeout_err"} THEN 0 ELSE 1
        /\ Cardinality(SocketCalls("recv_from")) =
              IF call.sock \in {"recv_err", "datagram"} THEN 1 ELSE 0
        /\ \A i \in SocketCalls("send_to") :
              io[i] = <<"send_to", "ping", "255.255.255.255:64">>
        /\ \A i \in SocketCalls("recv_from") :
              io[i] = <<"recv_from", "read_timeout_ms", "500">>
        /\ \A i \in SocketCalls("send_to"), j \in SocketCalls("recv_from") : i < j
        /\ ret = IF call.sock = "datagram" /\ call.net # <<>>
                     /\ Answers(call.net[1])
                  THEN Some(call.net[1].src)
                  ELSE None

\* Another device answers first and the C64 Ultimate second: one receive
\* call was made and nothing was found.
C11_Witness ==
    /\ call.fn = "C64Ultimate::detect"
    /\ call.sock = "datagram"
    /\ call.net = << [bytes |-> OtherBanner, src |-> "10.0.0.9"],
                     [bytes |-> Banner, src |-> "192.168.1.64"] >>
    /\ Cardinality(SocketCalls("recv_from")) = 1
    /\ ret = None

\* ---- redirected output
\* main bound the listener socket (and spawned the thread).
Bound == pc.listener # "none"

\* C12: whenever main has bound the listener socket, then on every path
\* by which the process exits main has first joined the listener thread
\* and the socket file has been removed; main never returns while the
\* thread is still waiting to accept or read.
C12_ListenerCleanup ==
    (pc.main = "exited" /\ Bound) => (joined /\ Finished /\ ~sockfile)

\* ---- content dispatch
LoadCall == call.fn \in {"ultiload", "C64Ultimate::load"}
MountCall == call.fn \in {"ultimount", "C64Ultimate::mount"}
Posted == \E i \in 1..Len(io) : io[i][1] = "POST"
MetaOpened == \E i \in 1..Len(io) : io[i] = <<"open", "meta">>

\* Character c is the lower-case letter l or its capital.
SameLetter(c, l) == c = l \/ \E i \in 1..26 : LowerAZ[i] = l /\ UpperAZ[i] = c

\* The name ends in a dot and e (in any case), and the dot does not open
\* the file name.
HasExtension(name, e) ==
    LET n == Len(name)
        k == Len(e)
    IN /\ n >= k + 2
       /\ name[n - k] = "."
       /\ name[n - k - 1] # "/"
       /\ \A i \in 1..k : SameLetter(name[n - k + i], e[i])

\* The file name has no dot after its first character.
NoExtension(name) ==
    \A i \in 1..Len(name) :
        name[i] = "." =>
            \/ i = 1
            \/ name[i - 1] = "/"
            \/ \E j \in (i + 1)..Len(name) : name[j] = "/"

ExtCrt == <<"c", "r", "t">>
ExtSid == <<"s", "i", "d">>
ExtMod == <<"m", "o", "d">>
ExtPrg == <<"p", "r", "g">>
PrgLike(name) == NoExtension(name) \/ HasExtension(name, ExtPrg)
MediaEndpoint(name) ==
    IF HasExtension(name, ExtCrt) THEN Some("/v1/runners:run_crt")
    ELSE IF HasExtension(name, ExtSid) THEN Some("/v1/runners:sidplay")
    ELSE IF HasExtension(name, ExtMod) THEN Some("/v1/runners:modplay")
    ELSE None

\* C2: load resolution opens the file for its size and header only when
\* the extension is absent or prg; a crt, sid or mod file of any size or
\* header resolves to its endpoint, and any other extension is rejected as
\* not recognized without any file access.
C2_LazyFileRead ==
    (LoadCall /\ call.file.exists /\ ~PrgLike(call.name)) =>
        /\ ~MetaOpened
        /\ MediaEndpoint(call.name).some => url = MediaEndpoint(call.name)
        /\ ~MediaEndpoint(call.name).some =>
              ret = Err("File extension not recognized") /\ io = <<>>

\* size + address >= 65536, on the unbounded integers: a size of 65536 or
\* more has a nonzero upper limb.
TooLarge(file) ==
    \/ file.size[2] # 0 \/ file.size[3] # 0 \/ file.size[4] # 0
    \/ file.size[1] + (file.head[1] + 256 * file.head[2]) >= 65536

\* C3: for a load with no extension or prg, of a file with its two header
\* bytes, the request is rejected as too large, with no POST made, exactly
\* when size + address >= 65536 (no wrap-around), and otherwise the
\* endpoint /v1/runners:run_prg is selected.
C3_SizeCheck ==
    (LoadCall /\ PrgLike(call.name) /\ call.file.exists
        /\ Len(call.file.head) = 2) =>
        /\ TooLarge(call.file) <=> ret = Err("PRG file is too large")
        /\ TooLarge(call.file) => ~Posted /\ url = None
        /\ ~TooLarge(call.file) => url = Some("/v1/runners:run_prg")

\* A 16-byte file with no extension, loading at 0xFFF0, is rejected.
C3_Witness ==
    /\ call.fn = "ultiload"
    /\ call.name = <<"g", "a", "m", "e">>
    /\ call.file.head = <<240, 255>>
    /\ call.file.size = U64Of(16)
    /\ ret = Err("PRG file is too large")
    /\ ~Posted

\* C4: the load endpoint is a function of the case-insensitive extension:
\* crt, sid and mod select their runners, absent or prg selects run_prg
\* subject to the size check, and every other extension is rejected as not
\* recognized with nothing transmitted; there is no fallback endpoint.
C4_EndpointByExtension ==
    (LoadCall /\ call.file.exists) =>
        /\ MediaEndpoint(call.name).some => url = MediaEndpoint(call.name)
        /\ (PrgLike(call.name) /\ Len(call.file.head) = 2) =>
              \/ url = Some("/v1/runners:run_prg")
              \/ ret = Err("PRG file is too large")
        /\ (~PrgLike(call.name) /\ ~MediaEndpoint(call.name).some) =>
              ret = Err("File extension not recognized") /\ ~Posted

\* The five disk image types.
DiskTypes == { <<"d", "6", "4">>, <<"g", "6", "4">>, <<"d", "7", "1">>,
               <<"g", "7", "1">>, <<"d", "8", "1">> }
TypeText == [e \in DiskTypes |->
               CASE e = <<"d", "6", "4">> -> "d64"
                 [] e = <<"g", "6", "4">> -> "g64"
                 [] e = <<"d", "7", "1">> -> "d71"
                 [] e = <<"g", "7", "1">> -> "g71"
                 [] OTHER -> "d81"]

\* C5: a mount is accepted exactly when the image's extension is, in any
\* case, one of d64, g64, d71, g71, d81; the endpoint is then
\* /v1/drives/<device>mount?type=<ext> with <ext> in lower case; any other
\* name is rejected with no file read and no POST.
C5_MountTypes ==
    MountCall =>
        /\ \A e \in DiskTypes :
              HasExtension(call.name, e) =>
                  /\ url = Some("/v1/drives/" \o call.device
                                  \o "mount?type=" \o TypeText[e])
                  /\ ret.err # "Unrecognized disk image file type/"
        /\ (~\E e \in DiskTypes : HasExtension(call.name, e)) =>
              /\ ret = Err("Unrecognized disk image file type/")
              /\ url = None
              /\ io = <<>>

\* image.D64 is posted to drive a: as type d64.
C5_Witness ==
    /\ call.fn = "ultimount"
    /\ call.name = <<"i", "m", "a", "g", "e", ".", "D", "6", "4">>
    /\ url = Some("/v1/drives/a:mount?type=d64")
    /\ Posted

\* ---- charset transcoder
\* The three ranges on which the encoder is defined.
EncoderDomain == (65..90) \cup (97..122) \cup (123..127)

\* C8: for every character c of the encoder's three ranges (A-Z, a-z,
\* 0x7B-0x7F), decoding the encoding of c gives back exactly c.
C8_RoundTrip ==
    (call.fn = "PetString::from" /\ Len(call.text) = 1
        /\ call.text[1] \in EncoderDomain)
    => String_from(ret.val) = Ok(call.text)

\* The encoding table as the claim states it.
ToNativeRule(c) ==
    IF c \in 65..90 THEN c + 128
    ELSE IF c \in 97..122 THEN c - 32
    ELSE IF c \in 123..127 THEN c + 96
    ELSE c

\* C9: to_native gives one byte per character, each character mapped on
\* its own by the table (A-Z +0x80, a-z -0x20, 0x7B-0x7F +0x60, every other
\* value of 0-255 unchanged), and no result leaves 0..255.
C9_ToNativePerChar ==
    call.fn = "PetString::from" =>
        /\ Len(ret.val) = Len(call.text)
        /\ \A i \in 1..Len(call.text) :
              call.text[i] \in 0..255 =>
                  /\ ret.val[i] = ToNativeRule(call.text[i])
                  /\ ToNativeRule(call.text[i]) \in 0..255

\* "Aa" has been encoded: 'A' gives 0xC1 and 'a' gives 0x41.
C9_Witness ==
    call.fn = "PetString::from" /\ call.text = <<65, 97>> /\ ret.val = <<193, 65>>

\* The decoding table as the claim states it.
FromNativeRule(b) ==
    IF b \in 97..122 THEN b - 32
    ELSE IF b \in 65..90 THEN b + 32
    ELSE IF b \in 193..218 THEN b - 128
    ELSE IF b = 222 THEN b - 96
    ELSE b

\* C10: from_native never fails; its result is the per-byte decoding of
\* the input when that is valid UTF-8, and otherwise the longest prefix of
\* the decoding that is valid UTF-8, with nothing replaced or appended.
C10_FromNativeTotal ==
    call.fn = "String::from" =>
        LET d == [i \in 1..Len(call.bytes) |-> FromNativeRule(call.bytes[i])]
        IN /\ ret.ok
           /\ Len(ret.val) <= Len(d)
           /\ ret.val = SubSeq(d, 1, Len(ret.val))
           /\ WellFormedUtf8(ret.val)
           /\ \A k \in (Len(ret.val) + 1)..Len(d) :
                 ~WellFormedUtf8(SubSeq(d, 1, k))

\* A decoding that is cut: 0xC1 0xFF 0x41 decodes to 'A' 0xFF 'a', of
\* which only 'A' is returned.
C10_Witness ==
    /\ call.fn = "String::from"
    /\ call.bytes = <<193, 255, 65>>
    /\ ret = Ok(<<65>>)

====
